---------------------------- MODULE Spec2Model ----------------------------
(***************************************************************************)
(* State-machine model of the logic in the optimum-intel material:         *)
(*   - get_model_size and the size comparison cell of the notebook         *)
(*     notebooks/openvino/visual_language_quantization.ipynb;              *)
(*   - the quantization configurations the notebook constructs;            *)
(*   - the "Build documentation" workflow's version derivation.            *)
(*                                                                         *)
(* Numbers.  Byte counts are Python ints (exact).  `model_size /= 1000 *   *)
(* 1000` yields a float; it is modelled by the exact rational              *)
(* num / den of which that float is the nearest double.  A value printed   *)
(* with `:.2f` is the hundredth nearest to the float: for a rational that  *)
(* is not exactly halfway between two hundredths this is the hundredth     *)
(* nearest to the rational; exactly halfway, the float's rounding error    *)
(* decides, so both neighbours are possible outcomes.                      *)
(***************************************************************************)
EXTENDS Integers, Sequences, FiniteSets, TLC

VARIABLES
    fs,               \* the filesystem: per directory, whether it exists and its files' sizes
    scale,            \* factor by which every file size has been multiplied since Init
    cell_pc,          \* position of the size comparison cell
    gms_pc,           \* position inside the active get_model_size call
    model_folder,     \* get_model_size: its argument
    todo,             \* get_model_size: entries iterdir() has not yielded yet
    model_size,       \* get_model_size: the local accumulator (bytes)
    fp32_model_size,  \* kernel variable (a rational, or Unset)
    int8_model_size,  \* kernel variable (a rational, or Unset)
    stdout,           \* the cell's output area: the lines printed by the current run
    error,            \* the exception that ended the current run, or "none"
    rounding,         \* how the float arithmetic resolved each halfway case met so far
    runs,             \* how often the cell has been run since the files last changed
    returned,         \* per directory: the totals returned since the files last changed
    ratio_log,        \* every ratio reported so far, with the exact quotient it shows
    cfg,              \* configuration cell: the names it has bound
    wf                \* documentation workflow: the job's state

sizeVars == <<fs, scale, cell_pc, gms_pc, model_folder, todo, model_size,
              fp32_model_size, int8_model_size, stdout, error, rounding,
              runs, returned, ratio_log>>

vars == <<sizeVars, cfg, wf>>

----------------------------------------------------------------------------
(* Bounds of the model.                                                    *)

\* Most files present in the two directories together.
MaxFiles == 4

\* Largest factor by which the file sizes are multiplied.
MaxScale == 3

\* Most runs of the size comparison cell between two changes of the files.
MaxRuns == 2

\* No directory holds more bytes than this, which keeps every sum within
\* the model checker's integers.
DiskQuota == 2147000000

----------------------------------------------------------------------------
(* Arithmetic.                                                             *)

RECURSIVE GCD(_, _)
GCD(a, b) == IF b = 0 THEN a ELSE GCD(b, a % b)

\* The rational num / den.
Rat(n, d) == [num |-> n, den |-> d]

\* A kernel variable that has not been assigned.
Unset == Rat(0, 0)

Reduce(r) == LET g == GCD(r.num, r.den) IN Rat(r.num \div g, r.den \div g)

\* a / b on floats, as the exact quotient (b is not zero).
RatDiv(a, b) ==
    LET g1 == GCD(a.num, b.num)
        g2 == GCD(a.den, b.den)
    IN  Reduce(Rat((a.num \div g1) * (b.den \div g2), (a.den \div g2) * (b.num \div g1)))

\* Multiplying both operands of a float division by two changes no bit of
\* the quotient: operands are identified up to common factors of two.
RECURSIVE Halve(_, _)
Halve(a, b) ==
    IF a % 2 = 0 /\ b % 2 = 0 /\ a + b > 0 THEN Halve(a \div 2, b \div 2) ELSE <<a, b>>

\* f"{x:.2f}" of the float nearest to r: the hundredths below r, whether r
\* lies exactly halfway to the next hundredth, and otherwise whether the
\* next hundredth is the nearer one.
Format2f(r) ==
    LET x     == Reduce(r)
        t     == 100 * (x.num % x.den)
        below == 100 * (x.num \div x.den) + (t \div x.den)
        twice == 2 * (t % x.den)
    IN  [below |-> below, halfway |-> twice = x.den, up |-> twice > x.den]

\* The outcomes the float arithmetic can have on the halfway case `key`.
HalfwayOutcomes(key) ==
    IF \E e \in rounding : e.key = key
    THEN {e.up : e \in {e \in rounding : e.key = key}}
    ELSE {0, 1}

----------------------------------------------------------------------------
(* The filesystem.                                                         *)

fp32_model_path == "smolvlm_ov"
int8_model_path == "smolvlm_int8"
Dirs == {fp32_model_path, int8_model_path}

\* A directory entry: pathlib splits its name into stem and suffix.
File(stem, suffix) == [stem |-> stem, suffix |-> suffix]

\* The entries a saved model directory may hold.
Names ==
    {File(s, x) : s \in {"openvino_language_model", "openvino_vision_embeddings_model"},
                  x \in {".xml", ".bin"}}
    \cup {File("config", ".json")}

\* The sizes each entry may have.
SizesOf(f) ==
    IF f.stem = "openvino_language_model"
    THEN (IF f.suffix = ".xml" THEN {2000, 7000}
          ELSE {998000, 260938000, 1028248000})
    ELSE IF f.stem = "openvino_vision_embeddings_model"
    THEN (IF f.suffix = ".xml" THEN {3000} ELSE {1500000})
    ELSE {500}

AllSizes == UNION {SizesOf(f) : f \in Names}

NoDir == [exists |-> FALSE, files |-> <<>>]
DirWith(files) == [exists |-> TRUE, files |-> files]

DirContents ==
    {NoDir} \cup
    UNION {{DirWith(g) : g \in {h \in [S -> AllSizes] : \A f \in S : h[f] \in SizesOf(f)}}
           : S \in SUBSET Names}

RECURSIVE SumOver(_, _)
SumOver(S, files) ==
    IF S = {} THEN 0
    ELSE LET f == CHOOSE f \in S : TRUE IN files[f] + SumOver(S \ {f}, files)

DirBytes(dir) == SumOver(DOMAIN dir.files, dir.files)

\* Every file size multiplied by k.
Scaled(dir, k) == [dir EXCEPT !.files = [f \in DOMAIN dir.files |-> k * dir.files[f]]]

----------------------------------------------------------------------------
(* get_model_size.                                                         *)

\* A variant of EnterModelSize: the accumulator is not reset between calls.
EnterModelSizeStale(previous) == previous

\* model_size = 0: the accumulator a call starts from, whatever an earlier
\* call left behind.
EnterModelSize(previous) == 0

\* A variant of iterdir: a missing directory lists as an empty one.
iterdirMissingAsEmpty(folder) == [ok |-> TRUE, entries |-> DOMAIN fs[folder].files]

\* Path(model_folder).iterdir(): the entries, or FileNotFoundError.
iterdir(folder) ==
    IF fs[folder].exists
    THEN [ok |-> TRUE, entries |-> DOMAIN fs[folder].files]
    ELSE [ok |-> FALSE, entries |-> {}]

\* file.with_suffix(suffix)
with_suffix(file, suffix) == [file EXCEPT !.suffix = suffix]

\* file.stat(): the size, or FileNotFoundError.
stat(folder, file) ==
    IF file \in DOMAIN fs[folder].files
    THEN [ok |-> TRUE, st_size |-> fs[folder].files[file]]
    ELSE [ok |-> FALSE, st_size |-> 0]

\* A variant of LoopBody: a descriptor without its payload is skipped.
LoopBodySkipUnpaired(folder, file, acc) ==
    LET bin == stat(folder, with_suffix(file, ".bin"))
    IN  IF file.suffix = ".xml" /\ bin.ok
        THEN [ok |-> TRUE, model_size |-> acc + stat(folder, file).st_size + bin.st_size]
        ELSE [ok |-> TRUE, model_size |-> acc]

\* A variant of LoopBody: no test of the suffix, every entry's size is added.
LoopBodyEveryFile(folder, file, acc) ==
    [ok |-> TRUE, model_size |-> acc + stat(folder, file).st_size]

\* A variant of LoopBody: descriptors and payloads are each added on their own.
LoopBodyBySuffix(folder, file, acc) ==
    IF file.suffix \in {".xml", ".bin"}
    THEN [ok |-> TRUE, model_size |-> acc + stat(folder, file).st_size]
    ELSE [ok |-> TRUE, model_size |-> acc]

\* One pass through the loop body with `file`: the accumulator afterwards,
\* or the error the pass raises.
LoopBody(folder, file, acc) ==
    IF file.suffix = ".xml"
    THEN LET xml == stat(folder, file)
             bin == stat(folder, with_suffix(file, ".bin"))
         IN  IF xml.ok /\ bin.ok
             THEN [ok |-> TRUE, model_size |-> acc + xml.st_size + bin.st_size]
             ELSE [ok |-> FALSE, model_size |-> acc]
    ELSE [ok |-> TRUE, model_size |-> acc]

\* A variant of TrueDivide: a binary mebibyte.
TrueDivideMebibyte(bytes) == Rat(bytes, 1024 * 1024)

\* A variant of TrueDivide: model_size //= 1000 * 1000.
TrueDivideFloor(bytes) == Rat(bytes \div (1000 * 1000), 1)

\* model_size /= 1000 * 1000
TrueDivide(bytes) == Rat(bytes, 1000 * 1000)

\* The call get_model_size(folder) starts.
Enter(folder) ==
    /\ model_folder' = folder
    /\ model_size' = EnterModelSize(model_size)
    /\ todo' = {}
    /\ gms_pc' = "iterdir"

\* An exception leaves get_model_size and ends the cell's run.
Raise(exception) ==
    /\ error' = exception
    /\ cell_pc' = "failed"
    /\ gms_pc' = "none"

CellStopped == cell_pc \in {"idle", "done", "failed"}

\* The cell is run: its output area is cleared and its first statement
\* calls get_model_size(fp32_model_path).
RunCell ==
    /\ CellStopped
    /\ runs < MaxRuns
    /\ runs' = runs + 1
    /\ cell_pc' = "fp32_call"
    /\ stdout' = <<>>
    /\ error' = "none"
    /\ Enter(fp32_model_path)
    /\ UNCHANGED <<fs, scale, fp32_model_size, int8_model_size, rounding,
                   returned, ratio_log, cfg, wf>>

\* for file in Path(model_folder).iterdir(): the listing is opened.
Iterdir ==
    /\ gms_pc = "iterdir"
    /\ LET listing == iterdir(model_folder)
       IN  IF listing.ok
           THEN /\ todo' = listing.entries
                /\ gms_pc' = "loop"
                /\ UNCHANGED <<cell_pc, error>>
           ELSE /\ Raise("FileNotFoundError")
                /\ UNCHANGED todo
    /\ UNCHANGED <<runs, fs, scale, model_folder, model_size, fp32_model_size,
                   int8_model_size, stdout, rounding, returned, ratio_log, cfg, wf>>

\* The loop takes the next entry, in whatever order the listing yields it.
LoopStep(file) ==
    /\ gms_pc = "loop"
    /\ file \in todo
    /\ todo' = todo \ {file}
    /\ LET after == LoopBody(model_folder, file, model_size)
       IN  IF after.ok
           THEN /\ model_size' = after.model_size
                /\ UNCHANGED <<cell_pc, gms_pc, error>>
           ELSE /\ Raise("FileNotFoundError")
                /\ UNCHANGED model_size
    /\ UNCHANGED <<runs, fs, scale, model_folder, fp32_model_size, int8_model_size,
                   stdout, rounding, returned, ratio_log, cfg, wf>>

\* The loop is over: the total is divided, returned and assigned.
Return ==
    /\ gms_pc = "loop"
    /\ todo = {}
    /\ LET total == TrueDivide(model_size)
       IN  /\ returned' = [returned EXCEPT ![model_folder] = @ \cup {total}]
           /\ IF cell_pc = "fp32_call"
              THEN /\ fp32_model_size' = total
                   /\ cell_pc' = "int8_call"
                   /\ UNCHANGED int8_model_size
              ELSE /\ int8_model_size' = total
                   /\ cell_pc' = "print_fp32"
                   /\ UNCHANGED fp32_model_size
    /\ gms_pc' = "none"
    /\ UNCHANGED <<runs, fs, scale, model_folder, todo, model_size, stdout, error,
                   rounding, ratio_log, cfg, wf>>

\* int8_model_size = get_model_size(int8_model_path): the call starts.
CallInt8 ==
    /\ cell_pc = "int8_call"
    /\ gms_pc = "none"
    /\ Enter(int8_model_path)
    /\ UNCHANGED <<runs, fs, scale, cell_pc, fp32_model_size, int8_model_size, stdout,
                   error, rounding, returned, ratio_log, cfg, wf>>

----------------------------------------------------------------------------
(* The size comparison cell, after its two calls.                          *)

\* A variant of SizeDecrease: the quotient the other way round.
SizeDecreaseInverted(first, second) ==
    IF first.num = 0 THEN Rat(0, 1) ELSE RatDiv(second, first)

\* fp32_model_size / int8_model_size
SizeDecrease(first, second) == RatDiv(first, second)

\* print(f"{text}: {value:.2f}..."), where the float printed is the quotient
\* of the floats of a and b.
print(text, value, a, b) ==
    LET m   == Format2f(value)
        key == Halve(a, b)
    IN  \E up \in (IF m.halfway THEN HalfwayOutcomes(key)
                   ELSE IF m.up THEN {1} ELSE {0}) :
            /\ stdout' = Append(stdout, [text |-> text, shown |-> m.below + up])
            /\ rounding' = IF m.halfway
                           THEN rounding \cup {[key |-> key, up |-> up]}
                           ELSE rounding

PrintFp32 ==
    /\ cell_pc = "print_fp32"
    /\ print("FP32 model size", fp32_model_size, fp32_model_size.num, fp32_model_size.den)
    /\ cell_pc' = "print_int8"
    /\ UNCHANGED <<runs, fs, scale, gms_pc, model_folder, todo, model_size,
                   fp32_model_size, int8_model_size, error, returned, ratio_log,
                   cfg, wf>>

PrintInt8 ==
    /\ cell_pc = "print_int8"
    /\ print("INT8 model size", int8_model_size, int8_model_size.num, int8_model_size.den)
    /\ cell_pc' = "print_ratio"
    /\ UNCHANGED <<runs, fs, scale, gms_pc, model_folder, todo, model_size,
                   fp32_model_size, int8_model_size, error, returned, ratio_log,
                   cfg, wf>>

\* A variant of Divide: a zero divisor raises nothing and yields zero.
DivideUnchecked(first, second) ==
    [ok |-> TRUE,
     value |-> IF second.num = 0 THEN Rat(0, 1) ELSE SizeDecrease(first, second)]

\* The division of two floats: ZeroDivisionError when the divisor is zero,
\* whatever the dividend.
Divide(first, second) ==
    IF second.num = 0
    THEN [ok |-> FALSE, value |-> Unset]
    ELSE [ok |-> TRUE, value |-> SizeDecrease(first, second)]

\* The third print: the division raises when the second total is zero.
PrintRatio ==
    /\ cell_pc = "print_ratio"
    /\ IF ~Divide(fp32_model_size, int8_model_size).ok
       THEN /\ Raise("ZeroDivisionError")
            /\ UNCHANGED <<stdout, rounding, ratio_log>>
       ELSE LET quotient == Divide(fp32_model_size, int8_model_size).value
            IN  /\ print("INT8 size decrease", quotient,
                         fp32_model_size.num, int8_model_size.num)
                /\ ratio_log' = ratio_log \cup
                       {[scale |-> scale, quotient |-> quotient,
                         halfway |-> Format2f(quotient).halfway,
                         shown |-> stdout'[Len(stdout')].shown]}
                /\ cell_pc' = "done"
                /\ UNCHANGED <<gms_pc, error>>
    /\ UNCHANGED <<runs, fs, scale, model_folder, todo, model_size, fp32_model_size,
                   int8_model_size, returned, cfg, wf>>

----------------------------------------------------------------------------
(* The environment between runs of the cell.                               *)

\* Every file of both directories is made k times as large.
Rescale(k) ==
    /\ CellStopped
    /\ scale * k <= MaxScale
    /\ \A d \in Dirs : DirBytes(fs[d]) <= DiskQuota \div k
    /\ fs' = [d \in Dirs |-> Scaled(fs[d], k)]
    /\ scale' = scale * k
    /\ returned' = [d \in Dirs |-> {}]
    /\ runs' = 0
    /\ UNCHANGED <<cell_pc, gms_pc, model_folder, todo, model_size,
                   fp32_model_size, int8_model_size, stdout, error, rounding,
                   ratio_log, cfg, wf>>

----------------------------------------------------------------------------
(* Specification of the size comparator.                                   *)

NoCfg == [bound |-> {}]
NoWf == [pc |-> 0, status |-> "off"]

SizeInit ==
    /\ fs \in {f \in [Dirs -> DirContents] :
                 Cardinality(DOMAIN f[fp32_model_path].files)
                   + Cardinality(DOMAIN f[int8_model_path].files) <= MaxFiles}
    /\ scale = 1
    /\ cell_pc = "idle"
    /\ gms_pc = "none"
    /\ model_folder = fp32_model_path
    /\ todo = {}
    /\ model_size = 0
    /\ fp32_model_size = Unset
    /\ int8_model_size = Unset
    /\ stdout = <<>>
    /\ error = "none"
    /\ rounding = {}
    /\ runs = 0
    /\ returned = [d \in Dirs |-> {}]
    /\ ratio_log = {}

Init == SizeInit /\ cfg = NoCfg /\ wf = NoWf

Next ==
    \/ RunCell
    \/ Iterdir
    \/ \E file \in Names : LoopStep(file)
    \/ Return
    \/ CallInt8
    \/ PrintFp32
    \/ PrintInt8
    \/ PrintRatio
    \/ \E k \in 2..MaxScale : Rescale(k)

Spec == Init /\ [][Next]_vars

----------------------------------------------------------------------------
(* What the properties of the size comparator speak about.                 *)

Entries(d) == DOMAIN fs[d].files
Descriptors(d) == {f \in Entries(d) : f.suffix = ".xml"}
Payload(f) == File(f.stem, ".bin")

\* Descriptors whose same-named payload is present, and those without it.
Matched(d) == {f \in Descriptors(d) : Payload(f) \in Entries(d)}
Orphans(d) == Descriptors(d) \ Matched(d)

\* The bytes of the pairs of the descriptors in S.
PairBytesOf(d, S) ==
    SumOver(S, fs[d].files) + SumOver({Payload(f) : f \in S}, fs[d].files)

\* The sum of the 2N file sizes of the N matched pairs of d.
PairBytes(d) == PairBytesOf(d, Matched(d))

\* The same number of megabytes.
SameValue(a, b) == Reduce(a) = Reduce(b)

\* The cell has been run on the files as they are now.
Fresh == runs > 0

\* The run of the cell on the present files ended with this exception
\* inside get_model_size(d).
FailedIn(d, exception) ==
    Fresh /\ cell_pc = "failed" /\ error = exception /\ model_folder = d

\* The directory of the example: one 2,000-byte descriptor and its
\* 1,028,248,000-byte payload.
ExampleDir ==
    DirWith([f \in {File("openvino_language_model", ".xml"),
                    File("openvino_language_model", ".bin")} |->
                IF f.suffix = ".xml" THEN 2000 ELSE 1028248000])

\* C1: every total get_model_size returns is, in decimal megabytes (bytes
\* over 1,000,000), exactly the sum of the 2N file sizes of the directory's
\* N matched pairs; a directory whose descriptors are all matched does
\* return one; and the example directory (2,000 + 1,028,248,000 bytes) gives
\* 1,028.25 MB, printed as 1028.25.
C1_TotalIsSumOfPairs ==
    /\ \A d \in Dirs : \A total \in returned[d] :
          SameValue(total, Rat(PairBytes(d), 1000000))
    /\ \A d \in Dirs :
          (fs[d].exists /\ Orphans(d) = {}) => ~FailedIn(d, "FileNotFoundError")
    /\ (fs[fp32_model_path] = ExampleDir) =>
          /\ \A total \in returned[fp32_model_path] :
                SameValue(total, Rat(102825, 100))
          /\ \A i \in 1..Len(stdout) :
                stdout[i].text = "FP32 model size" => stdout[i].shown = 102825

\* C1 witness: the example directory has been measured and its size
\* printed, next to a second directory with a matched pair of its own.
C1_Witness ==
    /\ fs[fp32_model_path] = ExampleDir
    /\ returned[fp32_model_path] = {Rat(1028250000, 1000000)}
    /\ Len(stdout) >= 1 /\ stdout[1].shown = 102825
    /\ Cardinality(Matched(int8_model_path)) = 1
    /\ returned[int8_model_path] # {}

\* C2: while a directory holds a descriptor without its payload, no call on
\* it returns a total, in whatever order the entries are taken: the cell
\* never gets past that call, and the call ends with FileNotFoundError.
C2_OrphanDescriptorFails ==
    /\ Orphans(fp32_model_path) # {} =>
          /\ returned[fp32_model_path] = {}
          /\ cell_pc \in {"idle", "fp32_call", "failed"}
    /\ Orphans(int8_model_path) # {} =>
          /\ returned[int8_model_path] = {}
          /\ cell_pc \in {"idle", "fp32_call", "int8_call", "failed"}
    /\ \A d \in Dirs :
          (Orphans(d) # {} /\ cell_pc = "failed" /\ model_folder = d)
             => error = "FileNotFoundError"

\* C2 witness: a call failed on the orphan descriptor after it had already
\* summed a matched pair, with entries still to come.
C2_Witness ==
    /\ FailedIn(model_folder, "FileNotFoundError")
    /\ Orphans(model_folder) # {}
    /\ model_size > 0
    /\ todo # {}
    /\ returned[model_folder] = {}

\* C3 as stated: an entry that lacks its payload counterpart is ignored and
\* the total of the remaining pairs is still produced, so a call on an
\* existing directory never fails.
C3_Original ==
    \A d \in Dirs : FailedIn(d, "FileNotFoundError") => ~fs[d].exists

\* C3 as amended: only descriptors that have their payload are summed; an
\* entry that is not a descriptor (a payload without descriptor, any other
\* file) contributes nothing and causes no failure, so that during the loop
\* the accumulator is the bytes of the pairs of the descriptors taken so
\* far; a descriptor without its payload is not ignored, it fails the call.
C3_OnlyDescriptorPairsSummed ==
    /\ gms_pc = "loop" =>
          /\ Orphans(model_folder) \ todo = {}
          /\ model_size = PairBytesOf(model_folder, Matched(model_folder) \ todo)
    /\ \A d \in Dirs :
          (fs[d].exists /\ FailedIn(d, "FileNotFoundError")) =>
             /\ Orphans(d) \ todo # {}
             /\ model_size = PairBytesOf(d, Matched(d) \ todo)

\* C3 witness: a total was returned for a directory that holds a matched
\* pair and also a payload without descriptor.
C3_Witness ==
    \E d \in Dirs :
        /\ returned[d] # {}
        /\ Matched(d) # {}
        /\ \E f \in Entries(d) :
              f.suffix = ".bin" /\ File(f.stem, ".xml") \notin Entries(d)

\* C4 as stated: a call on an existing directory with zero matched pairs
\* never fails (it yields zero).
C4_Original ==
    \A d \in Dirs :
        (fs[d].exists /\ Matched(d) = {}) => ~FailedIn(d, "FileNotFoundError")

\* C4 as amended: for every existing directory without a descriptor file
\* (empty, or holding only payloads and other files) every call returns the
\* total zero and none fails.
C4_NoDescriptorYieldsZero ==
    \A d \in Dirs :
        (fs[d].exists /\ Descriptors(d) = {}) =>
            /\ \A total \in returned[d] : total = Rat(0, 1000000)
            /\ ~FailedIn(d, "FileNotFoundError")
            /\ (Fresh /\ cell_pc \in {"print_fp32", "print_int8", "print_ratio", "done"})
               => returned[d] = {Rat(0, 1000000)}

\* C4 witness: zero was returned for a directory that holds files, none of
\* them a descriptor.
C4_Witness ==
    \E d \in Dirs :
        /\ returned[d] = {Rat(0, 1000000)}
        /\ \E f \in Entries(d) : f.suffix = ".bin"
        /\ \E f \in Entries(d) : f.suffix = ".json"
        /\ Descriptors(d) = {}

\* C5: for a directory that does not exist no call returns a total (zero
\* included): the listing raises FileNotFoundError, the loop is never
\* entered and the cell never gets past that call.
C5_MissingDirectoryFails ==
    /\ \A d \in Dirs :
          ~fs[d].exists =>
             /\ returned[d] = {}
             /\ model_folder = d => gms_pc # "loop"
             /\ (cell_pc = "failed" /\ model_folder = d)
                   => error = "FileNotFoundError"
    /\ ~fs[fp32_model_path].exists => cell_pc \in {"idle", "fp32_call", "failed"}
    /\ ~fs[int8_model_path].exists =>
          cell_pc \in {"idle", "fp32_call", "int8_call", "failed"}

\* C5 witness: the second call failed on a missing directory after the
\* first call had returned a total.
C5_Witness ==
    /\ FailedIn(int8_model_path, "FileNotFoundError")
    /\ ~fs[int8_model_path].exists
    /\ returned[fp32_model_path] # {}
    /\ returned[int8_model_path] = {}

\* h hundredths is a two-decimal rendering of the rational r: no hundredth
\* lies nearer to r.
IsNearestHundredth(h, r) ==
    LET x    == Reduce(r)
        rest == 100 * (x.num % x.den)
        e    == h - 100 * (x.num \div x.den)
    IN  /\ e \in 0..100
        /\ 2 * (rest - e * x.den) <= x.den
        /\ 2 * (e * x.den - rest) <= x.den

\* The cell has run to its end on the present files.
RatioReported == Fresh /\ cell_pc = "done"

\* C6: the third line the cell prints is the total of the first (FP32)
\* directory divided by the total of the second (INT8) directory, not the
\* inverse, rendered to two decimals; totals of 1,028.25 MB and 260.94 MB
\* are reported as 3.94.
C6_RatioIsFirstOverSecond ==
    RatioReported =>
        /\ Len(stdout) = 3
        /\ stdout[3].text = "INT8 size decrease"
        /\ fp32_model_size.den = int8_model_size.den
        /\ IsNearestHundredth(stdout[3].shown,
                              Rat(fp32_model_size.num, int8_model_size.num))
        /\ (/\ SameValue(fp32_model_size, Rat(102825, 100))
            /\ SameValue(int8_model_size, Rat(26094, 100)))
           => stdout[3].shown = 394

\* C6 witness: the cell reported 3.94 for totals of 1,028.25 MB and 260.94 MB.
C6_Witness ==
    /\ RatioReported
    /\ fp32_model_size = Rat(1028250000, 1000000)
    /\ int8_model_size = Rat(260940000, 1000000)
    /\ stdout[1].shown = 102825
    /\ stdout[2].shown = 26094
    /\ stdout[3].shown = 394

\* C7 as stated: whatever the factor by which every file of both
\* directories has been multiplied, the reported ratio is the same.
C7_Original ==
    \A e1, e2 \in ratio_log : e1.shown = e2.shown

\* C7 as amended: multiplying every file of both directories by k leaves the
\* exact quotient of the two totals unchanged, and the reported two-decimal
\* ratio unchanged unless that quotient lies exactly halfway between two
\* hundredths; there the two reports differ by at most 0.01.
C7_RatioUnchangedOffHalfway ==
    \A e1, e2 \in ratio_log :
        /\ e1.quotient = e2.quotient
        /\ ~e1.halfway => e1.shown = e2.shown
        /\ e1.shown - e2.shown \in {-1, 0, 1}

\* C7 witness: the same ratio, not a whole number and not halfway, was
\* reported before and after every file was made three times as large.
C7_Witness ==
    \E e1, e2 \in ratio_log :
        /\ e1.scale = 1 /\ e2.scale = 3
        /\ ~e1.halfway
        /\ e1.quotient.den # 1
        /\ e1.shown = e2.shown

\* C8: no step of the cell or of get_model_size changes the set of files or
\* a file size, and no call depends on an earlier one: every call starts
\* from an accumulator of zero, and all the totals returned for a directory
\* while its files are unchanged are the same, however the calls on the two
\* directories alternate.
C8_ReadOnlyAndStateless ==
    /\ [](gms_pc = "iterdir" => model_size = 0)
    /\ [](\A d \in Dirs : Cardinality(returned[d]) <= 1)
    /\ [][scale' = scale => fs' = fs]_vars

\* C8 witness: the cell has run twice on the same files, measuring two
\* directories of different totals on each run.
C8_Witness ==
    /\ runs = 2
    /\ cell_pc = "done"
    /\ \A d \in Dirs : Cardinality(returned[d]) = 1
    /\ returned[fp32_model_path] # returned[int8_model_path]

\* Both calls of the cell's run on the present files have returned.
PastCalls ==
    /\ Fresh
    /\ \/ cell_pc \in {"print_fp32", "print_int8", "print_ratio", "done"}
       \/ cell_pc = "failed" /\ error = "ZeroDivisionError"

\* The lines printed so far are the two size lines, in their order.
TwoSizeLines ==
    /\ Len(stdout) = 2
    /\ stdout[1].text = "FP32 model size"
    /\ stdout[2].text = "INT8 model size"

\* C11: when the second (INT8) directory exists but holds no descriptor
\* file its total is zero, and when that total is zero the cell reports no
\* ratio: it never completes and prints no "INT8 size decrease" line, the
\* division fails with an unhandled ZeroDivisionError after exactly the two
\* size lines have been printed, and the two totals remain the values the
\* two calls returned.
C11_ZeroSecondTotalFailsAfterSizeLines ==
    /\ (/\ PastCalls
        /\ fs[int8_model_path].exists
        /\ Descriptors(int8_model_path) = {})
       => int8_model_size = Rat(0, 1000000)
    /\ (PastCalls /\ int8_model_size.num = 0) =>
        /\ cell_pc # "done"
        /\ \A i \in 1..Len(stdout) : stdout[i].text # "INT8 size decrease"
        /\ cell_pc = "failed" => TwoSizeLines /\ stdout[2].shown = 0
        /\ fp32_model_size = Rat(PairBytes(fp32_model_path), 1000000)
        /\ returned[fp32_model_path] = {fp32_model_size}
        /\ returned[int8_model_path] = {int8_model_size}
    /\ (Fresh /\ cell_pc = "failed" /\ error = "ZeroDivisionError")
       => int8_model_size.num = 0

\* C11 witness: the second directory exists and holds a file but no
\* descriptor, the first holds a matched pair, and the run has ended with
\* ZeroDivisionError after the two size lines.
C11_Witness ==
    /\ Fresh
    /\ cell_pc = "failed"
    /\ error = "ZeroDivisionError"
    /\ fs[int8_model_path].exists
    /\ Entries(int8_model_path) # {}
    /\ Descriptors(int8_model_path) = {}
    /\ Matched(fp32_model_path) # {}
    /\ fp32_model_size.num > 0
    /\ int8_model_size = Rat(0, 1000000)
    /\ TwoSizeLines

----------------------------------------------------------------------------
(* The quantization configurations.  The three constructors belong to the  *)
(* library; they are modelled as the specification describes them: records *)
(* of the parameters they were given.  An absent optional parameter is the *)
(* empty set, a present one the set of its value.                          *)

None == {}
Some(value) == {value}

\* Weight-only quantization: precision in bits, optional grouping size.
OVWeightQuantizationConfig(bits, group_size) ==
    [variant |-> "weight_only", bits |-> bits, group_size |-> group_size,
     dataset |-> None, num_samples |-> None]

\* Calibration-based quantization: precision in bits, dataset, sample count.
OVQuantizationConfig(bits, dataset, num_samples) ==
    [variant |-> "calibration", bits |-> bits, group_size |-> None,
     dataset |-> dataset, num_samples |-> num_samples]

\* Pipeline configuration: a mapping from component name to sub-configuration,
\* plus dataset and sample count.
OVPipelineQuantizationConfig(quantization_configs, dataset, num_samples) ==
    [variant |-> "pipeline", quantization_configs |-> quantization_configs,
     dataset |-> dataset, num_samples |-> num_samples]

\* dataset, num_samples = "contextual", 50
dataset == Some("contextual")
num_samples == Some(50)

woq_8bit == OVWeightQuantizationConfig(8, None)
woq_4bit == OVWeightQuantizationConfig(4, Some(16))
static_8bit == OVQuantizationConfig(8, dataset, num_samples)

\* A variant of ComponentNames: the vision component is left out.
ComponentNamesWithoutVision == {"lm_model", "text_embeddings_model"}

\* The keys of the mapping the cell passes as quantization_configs.
ComponentNames == {"lm_model", "text_embeddings_model", "vision_embeddings_model"}

\* The mapping the cell passes as quantization_configs.
NotebookConfigs ==
    [name \in ComponentNames |->
        IF name = "lm_model" THEN OVQuantizationConfig(8, None, None)
        ELSE OVWeightQuantizationConfig(8, None)]

\* The sub-configurations a caller may supply for a component.
SubConfigs == {OVQuantizationConfig(8, None, None), woq_8bit, woq_4bit, static_8bit}

\* The configurations the cell leaves to choose from (ppl_q once built).
Selectable == {"woq_8bit", "woq_4bit", "static_8bit", "ppl_q"}

Unbuilt == [variant |-> "unbuilt"]

ConfigNamed(name) ==
    IF name = "woq_8bit" THEN woq_8bit
    ELSE IF name = "woq_4bit" THEN woq_4bit
    ELSE IF name = "static_8bit" THEN static_8bit
    ELSE cfg.ppl_q

CfgInit ==
    \E supplied \in [ComponentNames -> SubConfigs] :
        cfg = [pc |-> "start", supplied |-> supplied, ppl_q |-> Unbuilt,
               quantization_config |-> Unbuilt]

\* ppl_q = OVPipelineQuantizationConfig(quantization_configs=..., dataset=dataset,
\*                                      num_samples=num_samples)
ConstructPipeline ==
    /\ cfg.pc = "start"
    /\ cfg' = [cfg EXCEPT
                 !.pc = "built",
                 !.ppl_q = OVPipelineQuantizationConfig(cfg.supplied, dataset, num_samples)]
    /\ UNCHANGED <<sizeVars, wf>>

\* from_pretrained(model_id, quantization_config=<the configuration chosen>):
\* the value is handed to the library as it is.
LoadQuantized(name) ==
    /\ cfg.pc = "built"
    /\ cfg' = [cfg EXCEPT !.pc = "loaded", !.quantization_config = ConfigNamed(name)]
    /\ UNCHANGED <<sizeVars, wf>>

\* The size comparator at rest.
SizeAtRest ==
    /\ fs = [d \in Dirs |-> NoDir]
    /\ scale = 1
    /\ cell_pc = "idle"
    /\ gms_pc = "none"
    /\ model_folder = fp32_model_path
    /\ todo = {}
    /\ model_size = 0
    /\ fp32_model_size = Unset
    /\ int8_model_size = Unset
    /\ stdout = <<>>
    /\ error = "none"
    /\ rounding = {}
    /\ runs = 0
    /\ returned = [d \in Dirs |-> {}]
    /\ ratio_log = {}

InitConfig == SizeAtRest /\ CfgInit /\ wf = NoWf

NextConfig ==
    \/ ConstructPipeline
    \/ \E name \in Selectable : LoadQuantized(name)

SpecConfig == InitConfig /\ [][NextConfig]_vars

----------------------------------------------------------------------------
(* The "Build documentation" workflow.  Text is a sequence of tokens: the  *)
(* identifier __version__ is one token, every other character stands by    *)
(* itself.                                                                 *)

\* The versions optimum/intel/version.py may declare.
DeclaredVersions ==
    { <<"1", ".", "2", ".", "0", ".", "d", "e", "v", "0">>,
      <<"1", ".", "2", ".", "0">>,
      <<"1", ".", "2", ".", "0", "d", "e", "v", "0">>,
      <<"1", ".", "2", ".", "0", ".", "d", "e", "v", "1">>,
      <<"1", ".", "2", ".", "0", ".", "d", "e", "v", "0", "1">>,
      <<"1", ".", "2", ".", "0", "r", "c", "1">> }

Quotes == {"\"", "'"}

\* optimum/intel/version.py: a comment line, then the declaration.
VersionFile(version, quote) ==
    << <<"#", " ", "C", "o", "p", "y", "r", "i", "g", "h", "t">>,
       <<"__version__", " ", "=", " ", quote>> \o version \o <<quote>> >>

IsPrefix(p, s) == Len(p) <= Len(s) /\ SubSeq(s, 1, Len(p)) = p
IsSuffix(p, s) == Len(p) <= Len(s) /\ SubSeq(s, Len(s) - Len(p) + 1, Len(s)) = p

\* grep '^__version__ =' intel/version.py
grep(lines) == SelectSeq(lines, LAMBDA l : IsPrefix(<<"__version__", " ", "=">>, l))

\* The tokens of s before the first "=" (all of s when it has none).
RECURSIVE UpToDelimiter(_)
UpToDelimiter(s) ==
    IF s = <<>> \/ Head(s) = "=" THEN <<>> ELSE <<Head(s)>> \o UpToDelimiter(Tail(s))

\* cut -d '=' -f 2: the second field of a line (a line without delimiter
\* is passed whole).
cut(line) ==
    LET first == UpToDelimiter(line)
    IN  IF Len(first) = Len(line) THEN line
        ELSE UpToDelimiter(SubSeq(line, Len(first) + 2, Len(line)))

\* xargs: quotes are removed and the blanks around the word dropped.
xargs(text) == SelectSeq(text, LAMBDA c : c \notin {" ", "\"", "'"})

RECURSIVE Concat(_)
Concat(seqs) == IF seqs = <<>> THEN <<>> ELSE Head(seqs) \o Concat(Tail(seqs))

\* version=`echo "$(grep ... | cut -d '=' -f 2 | xargs)"`
ReadVersion(lines) ==
    LET matching == grep(lines)
    IN  xargs(Concat([i \in 1..Len(matching) |-> cut(matching[i])]))

\* A variant of MatchesDev0: the pattern *dev0, without the dot.
MatchesDev0NoDot(version) == IsSuffix(<<"d", "e", "v", "0">>, version)

\* [[ $version == *.dev0 ]]
MatchesDev0(version) == IsSuffix(<<".", "d", "e", "v", "0">>, version)

main == <<"m", "a", "i", "n">>

\* The line the step appends to $GITHUB_ENV.
VersionLine(version) ==
    [name |-> "VERSION",
     value |-> IF MatchesDev0(version) THEN main ELSE <<"v">> \o version]

\* ${{ env.NAME }}: the last value the file gives the name, else empty.
EnvValue(env, name) ==
    LET at == {i \in 1..Len(env) : env[i].name = name}
    IN  IF at = {} THEN <<>> ELSE env[CHOOSE i \in at : \A j \in at : j <= i].value

Steps == <<"checkout", "setup-node", "Set up Python", "Set environment variables",
           "Setup environment", "Make documentation">>

WfInit ==
    \E version \in DeclaredVersions, quote \in Quotes :
        wf = [pc |-> 1, status |-> "running", declared |-> version,
              version_py |-> VersionFile(version, quote),
              GITHUB_ENV |-> <<>>, built |-> <<>>]

Running(step) == wf.status = "running" /\ wf.pc <= Len(Steps) /\ Steps[wf.pc] = step

Advance(w) ==
    [w EXCEPT !.pc = @ + 1,
              !.status = IF w.pc = Len(Steps) THEN "success" ELSE "running"]

\* actions/checkout, actions/setup-node, actions/setup-python and the pip
\* installs: each succeeds, leaving the environment file alone.
ExternalStep(step) ==
    /\ step \in {"checkout", "setup-node", "Set up Python", "Setup environment"}
    /\ Running(step)
    /\ wf' = Advance(wf)
    /\ UNCHANGED <<sizeVars, cfg>>

\* Such a step fails (the network, the registry): the job ends and no
\* later step runs.
StepFails(step) ==
    /\ step \in {"checkout", "setup-node", "Set up Python", "Setup environment"}
    /\ Running(step)
    /\ wf' = [wf EXCEPT !.status = "failure"]
    /\ UNCHANGED <<sizeVars, cfg>>

\* Set environment variables
SetEnvironmentVariables ==
    /\ Running("Set environment variables")
    /\ LET version == ReadVersion(wf.version_py)
       IN  wf' = Advance([wf EXCEPT !.GITHUB_ENV = Append(@, VersionLine(version))])
    /\ UNCHANGED <<sizeVars, cfg>>

\* Make documentation: doc-builder build ... --version ${{ env.VERSION }},
\* then the push; the builder is started with the version whether or not
\* the step then succeeds.
MakeDocumentation(succeeds) ==
    /\ Running("Make documentation")
    /\ LET ran == [wf EXCEPT !.built = Append(@, EnvValue(wf.GITHUB_ENV, "VERSION"))]
       IN  wf' = IF succeeds THEN Advance(ran) ELSE [ran EXCEPT !.status = "failure"]
    /\ UNCHANGED <<sizeVars, cfg>>

InitDocs == SizeAtRest /\ cfg = NoCfg /\ WfInit

NextDocs ==
    \/ \E step \in {"checkout", "setup-node", "Set up Python", "Setup environment"} :
          ExternalStep(step)
    \/ \E step \in {"checkout", "setup-node", "Set up Python", "Setup environment"} :
          StepFails(step)
    \/ SetEnvironmentVariables
    \/ \E succeeds \in BOOLEAN : MakeDocumentation(succeeds)

SpecDocs == InitDocs /\ [][NextDocs]_vars

\* The version string the claim expects for a declared version.
ExpectedVersion(declared) ==
    IF Len(declared) >= 5
       /\ declared[Len(declared) - 4] = "."
       /\ declared[Len(declared) - 3] = "d"
       /\ declared[Len(declared) - 2] = "e"
       /\ declared[Len(declared) - 1] = "v"
       /\ declared[Len(declared)] = "0"
    THEN <<"m", "a", "i", "n">>
    ELSE <<"v">> \o declared

VersionLines == {i \in 1..Len(wf.GITHUB_ENV) : wf.GITHUB_ENV[i].name = "VERSION"}

\* C10: the version handed to the documentation builder is derived from the
\* declared __version__: 'main' exactly when the declared version ends with
\* '.dev0', otherwise 'v' followed by the declared version; the variable is
\* not set before the step "Set environment variables" has run, is set
\* exactly once from then on, and the builder is only ever run with it.
C10_BuilderVersionFromDeclaredVersion ==
    /\ wf.pc <= 4 => (VersionLines = {} /\ wf.built = <<>>)
    /\ wf.pc > 4 =>
          /\ Cardinality(VersionLines) = 1
          /\ \A i \in VersionLines :
                /\ wf.GITHUB_ENV[i].value = ExpectedVersion(wf.declared)
                /\ (wf.GITHUB_ENV[i].value = <<"m", "a", "i", "n">>)
                      <=> IsSuffix(<<".", "d", "e", "v", "0">>, wf.declared)
    /\ wf.pc < Len(Steps) => wf.built = <<>>
    /\ \A i \in 1..Len(wf.built) : wf.built[i] = ExpectedVersion(wf.declared)
    /\ wf.status = "success" => Len(wf.built) = 1

\* C10 witness: the builder has run with 'main' for a declared version
\* ending in '.dev0'.
C10_Witness ==
    /\ wf.status = "success"
    /\ wf.declared = <<"1", ".", "2", ".", "0", ".", "d", "e", "v", "0">>
    /\ wf.built = << <<"m", "a", "i", "n">> >>

============================================================================
